---- MODULE Spec2Model ----
(***************************************************************************)
(* signalk-to-mongodb-atlas: the MongoDb buffering class of src/mongodb.js *)
(* (buffer, housekeeping timer, flush coroutine) driven by the plugin      *)
(* wiring of the plugin entry file (start / handleUpdates / stop).         *)
(*                                                                         *)
(* Time is the value of `new Date().getTime()` in milliseconds.  A         *)
(* synchronous handler runs at one clock value; the only suspension point  *)
(* is the await of the superagent request in flush().                      *)
(***************************************************************************)
EXTENDS Integers, Sequences, FiniteSets, TLC

\* ------------------------------------------------------------------ bounds
MaxTime == 2        \* the clock runs from 0 to MaxTime seconds
MaxPayload == 1     \* number of distinct raw payloads the feed produces

\* ------------------------------------------------------- program constants
MillisPerSec == 1000    \* options.ttlSecs * 1000, options.flushSecs * 1000
DefaultTtlMillis == 60000   \* settings.defaultTtlMillis
Seed1 == 5381           \* let hash1 = 5381
Seed2 == 52711          \* let hash2 = 52711
HashMul == 33           \* hash = (hash * 33) ^ c
UidShift == 4096        \* (hash1 >>> 0) * 4096 + (hash2 >>> 0)
StatusOkLow == 200      \* result.status >= 200
StatusOkHigh == 300     \* result.status < 300
Half == 65536           \* 2^16: a 32 bit accumulator is kept as two 16 bit limbs

\* this.options before start(options), and no request being awaited
NoOptions == [batchSize |-> 0, maxBuffer |-> 0, flushSecs |-> 0, ttlSecs |-> 0,
              apiUrl |-> "none", apiMethod |-> "none"]
NoRequest == [method |-> "none", url |-> "none", body |-> <<>>]

\* the configurations start(options) is called with
BatchSizes == {1, 2}
MaxBuffers == {3}
FlushSecsSet == {0, 1}
TtlSecsSet == {1}
ApiUrls == {"https://atlas/endpoint"}
ApiMethods == {"GET", "PUT", "POST"}
\* (the methods other than PUT are tried with one of the configurations)
OptionsSet ==
    [batchSize : BatchSizes, maxBuffer : MaxBuffers, flushSecs : FlushSecsSet,
     ttlSecs : TtlSecsSet, apiUrl : ApiUrls, apiMethod : {"PUT"}]
        \cup [batchSize : {2}, maxBuffer : MaxBuffers, flushSecs : {1},
              ttlSecs : TtlSecsSet, apiUrl : ApiUrls,
              apiMethod : ApiMethods \ {"PUT"}]

\* the outcomes of one Transport exchange: the promise resolves with a
\* result of some status, or it rejects (timeout, network error, retries
\* exhausted) and the await throws
Statuses == {200, 500}
Outcomes == [thrown : {FALSE}, status : Statuses]
                \cup [thrown : {TRUE}, status : {0}]

\* the raw payloads handleUpdates builds: an identity (source/context/path/
\* value/tags) and the update's timestamp, which may be missing; "bad" is a
\* payload JSON.stringify cannot serialise
Payloads == 1 .. MaxPayload
\* (time is the set of the timestamps given: none or one; the updates that
\* carry a timestamp are those of payload 1)
Stamps == {0}
RawPoints == [id : Payloads, time : {{}}, bad : {FALSE}]
                 \cup [id : {1}, time : {{t} : t \in Stamps}, bad : {FALSE}]
                 \cup [id : {1}, time : {{}}, bad : {TRUE}]

\* ------------------------------------------------------------ getPoint hash
RECURSIVE Xor(_, _)
\* bitwise exclusive or of two naturals
Xor(a, b) ==
    IF a = 0 THEN b
    ELSE IF b = 0 THEN a
    ELSE (((a % 2) + (b % 2)) % 2) + 2 * Xor(a \div 2, b \div 2)

RECURSIVE Digits(_)
\* the char codes of the decimal representation of a natural
Digits(n) ==
    IF n < 10 THEN <<48 + n>> ELSE Append(Digits(n \div 10), 48 + (n % 10))

\* JSON.stringify(point) before uid is assigned: {id,time,expiry}
Stringify(id, time, expiry) ==
    <<123, 64 + id, 44>> \o Digits(time) \o <<44>> \o Digits(expiry) \o <<125>>

\* one round hash = (hash * 33) ^ c on a 32 bit accumulator <<high, low>>
HashStep(h, c) ==
    LET lo33 == h[2] * HashMul
        hi == ((h[1] * HashMul) + (lo33 \div Half)) % Half
    IN  <<hi, Xor(lo33 % Half, c)>>

RECURSIVE HashFrom(_, _, _)
\* while (i--) { c = json.charCodeAt(i); hash = (hash * 33) ^ c }
HashFrom(h, json, i) ==
    IF i = 0 THEN h ELSE HashFrom(HashStep(h, json[i]), json, i - 1)

\* point.uid = (hash1 >>> 0) * 4096 + (hash2 >>> 0), as three 16 bit limbs
Uid(json) ==
    LET h1 == HashFrom(<<0, Seed1>>, json, Len(json))
        h2 == HashFrom(<<0, Seed2>>, json, Len(json))
        l0 == ((h1[2] * UidShift) % Half) + h2[2]
        l1 == ((h1[2] * UidShift) \div Half) + ((h1[1] * UidShift) % Half)
                 + h2[1] + (l0 \div Half)
        l2 == ((h1[1] * UidShift) \div Half) + (l1 \div Half)
    IN  <<l2, l1 % Half, l0 % Half>>

\* the uid of every point the feed can produce (computed once)
Clock == {s * MillisPerSec : s \in 0 .. MaxTime}
Expiries == {t + s * MillisPerSec : t \in Clock, s \in TtlSecsSet}
UidTable ==
    [id \in Payloads, time \in Clock, expiry \in Expiries |->
        Uid(Stringify(id, time, expiry))]

\* getPoint(point) at clock value t with time-to-live ttl: the set of the
\* point returned, empty when it returns null
getPoint(raw, t, ttl) ==
    IF raw.bad THEN {}
    ELSE LET time == IF raw.time = {} THEN t ELSE CHOOSE x \in raw.time : TRUE
             expiry == t + ttl
         IN  {[id |-> raw.id, time |-> time, expiry |-> expiry,
               uid |-> UidTable[raw.id, time, expiry]]}


\* -------------------------------------------------------------------- state
VARIABLES
    now,            \* new Date().getTime()
    options,        \* this.options: NoOptions until start(options)
    timer,          \* this.timer is set (the housekeeping interval is running)
    ttlMillis,      \* this.ttlMillis
    flushMillis,    \* this.flushMillis
    buffer,         \* this.buffer: the Map's entries in insertion order
    flushExpiry,    \* this.flushExpiry
    flushing,       \* this.flushing
    batches,        \* flush(): local `batches`, the iterations still to run
    iterIdx,        \* flush(): entries of the Map bufferIterator has passed
    iterDone,       \* flush(): bufferIterator has returned done
    request,        \* the superagent request flush() awaits, or NoRequest
    lastOp,         \* the handler that ran last
    sent,           \* requests issued by the current (or last) flush invocation
    startN,         \* buffer.size when that invocation started
    startPartial,   \* whether it started with new Date() > flushExpiry
    disturbed,      \* a send() or an eviction changed the buffer during it
    allOk,          \* every response of it so far was 2xx
    flushEnded,     \* the finally block of flush() ran in the last step
    attempted,      \* resident uids that were part of some request
    evicted,        \* what the last housekeeping evicted: uid, and whether
                    \* the point had been part of some request
    replaced,       \* the last send() set a key the Map already held
    late,           \* resident uids that send() added after the current
                    \* flush invocation had started
    raced,          \* the last 2xx response found a point of its batch
                    \* already gone from the buffer
    stopFlushTimer  \* whether the timer was still set when stop() invoked
                    \* its flush(): {} until stop() is called

vars == <<now, options, timer, ttlMillis, flushMillis, buffer, flushExpiry,
          flushing, batches, iterIdx, iterDone, request, lastOp, sent, startN,
          startPartial, disturbed, allOk, flushEnded, attempted, evicted,
          replaced, late, raced, stopFlushTimer>>

\* ----------------------------------------------------------------- helpers
Range(s) == {s[i] : i \in 1 .. Len(s)}
UidsOf(s) == {s[i].uid : i \in 1 .. Len(s)}
Min(a, b) == IF a < b THEN a ELSE b

\* the fields flush() reads and writes, as one record; what is recorded
\* about a flush invocation is kept until the step after it ended
Cur ==
    [buffer |-> buffer, flushExpiry |-> flushExpiry, flushing |-> flushing,
     batches |-> batches, iterIdx |-> iterIdx, iterDone |-> iterDone,
     request |-> request,
     sent |-> IF flushing THEN sent ELSE 0,
     startN |-> IF flushing THEN startN ELSE 0,
     startPartial |-> flushing /\ startPartial,
     disturbed |-> flushing /\ disturbed,
     allOk |-> flushing => allOk,
     flushEnded |-> FALSE, attempted |-> attempted, replaced |-> FALSE,
     late |-> IF flushing THEN late ELSE {}, raced |-> FALSE]

\* assign the record, computed once, to the primed variables
Becomes(m) ==
    \E r \in {m} :
        /\ buffer' = r.buffer
        /\ flushExpiry' = r.flushExpiry
        /\ flushing' = r.flushing
        /\ batches' = r.batches
        /\ iterIdx' = r.iterIdx
        /\ iterDone' = r.iterDone
        /\ request' = r.request
        /\ sent' = r.sent
        /\ startN' = r.startN
        /\ startPartial' = r.startPartial
        /\ disturbed' = r.disturbed
        /\ allOk' = r.allOk
        /\ flushEnded' = r.flushEnded
        /\ attempted' = r.attempted \cap UidsOf(r.buffer)
        /\ replaced' = r.replaced
        /\ late' = r.late \cap UidsOf(r.buffer)
        /\ raced' = r.raced

\* ------------------------------------------------------------ Map semantics
\* a Map that adds an entry for every set, whatever the key
BufferSet_appends(buf, pt) == Append(buf, pt)

\* this.buffer.set(point.uid, point): an existing key keeps its position
BufferSet(buf, pt) ==
    IF \E i \in 1 .. Len(buf) : buf[i].uid = pt.uid
    THEN [buf EXCEPT ![CHOOSE i \in 1 .. Len(buf) : buf[i].uid = pt.uid] = pt]
    ELSE Append(buf, pt)

\* this.buffer.delete(key) for every key of a set: absent keys are no-ops
BufferDelete(buf, keys) == SelectSeq(buf, LAMBDA e : e.uid \notin keys)

\* the live Map iterator after keys were deleted: it has passed the entries
\* among the first idx that are still there
IterAfterDelete(buf, idx, keys) ==
    Cardinality({i \in 1 .. Min(idx, Len(buf)) : buf[i].uid \notin keys})

\* ------------------------------------------------------------------ flush()
\* flush() without its re-entry check
FlushGuard_missing(m) == FALSE

\* if (this.flushing === true) return;
FlushGuard(m) == m.flushing = TRUE

\* a batch count that forgets the trailing partial batch
Batches_noPartial(n, t, expiry) == n \div options.batchSize

\* a batch count that rounds up instead of down
Batches_roundsUp(n, t, expiry) ==
    ((n + options.batchSize - 1) \div options.batchSize)
        + (IF t > expiry THEN 1 ELSE 0)

\* let batches = Math.floor(size / batchSize); if (new Date() > flushExpiry) batches++
Batches(n, t, expiry) ==
    (n \div options.batchSize) + (IF t > expiry THEN 1 ELSE 0)

\* an inner loop that reads the Map from its newest entry backwards
TakeBatch_newestFirst(buf, idx, done) ==
    IF done
    THEN [batch |-> <<>>, idx |-> 0, done |-> TRUE]
    ELSE IF Len(buf) - idx >= options.batchSize
    THEN [batch |-> SubSeq(buf, Len(buf) - idx - options.batchSize + 1, Len(buf) - idx),
          idx |-> idx + options.batchSize, done |-> FALSE]
    ELSE [batch |-> SubSeq(buf, 1, Len(buf) - idx), idx |-> 0, done |-> TRUE]

\* the inner loop: while (c--) { next(); if (point == null) break; push }
TakeBatch(buf, idx, done) ==
    IF done
    THEN [batch |-> <<>>, idx |-> 0, done |-> TRUE]
    ELSE IF Len(buf) - idx >= options.batchSize
    THEN [batch |-> SubSeq(buf, idx + 1, idx + options.batchSize),
          idx |-> idx + options.batchSize, done |-> FALSE]
    ELSE [batch |-> SubSeq(buf, idx + 1, Len(buf)), idx |-> 0, done |-> TRUE]

\* superagent.put(apiUrl)...send(batch)
Request(batch) == [method |-> "PUT", url |-> options.apiUrl, body |-> batch]

\* a finally block that forgets to reset the flag
Finally_staysFlushing(m, t) ==
    [m EXCEPT !.flushExpiry = t + flushMillis,
              !.request = NoRequest, !.batches = 0, !.iterIdx = 0,
              !.iterDone = FALSE, !.flushEnded = TRUE, !.late = {}]

\* finally { flushExpiry = new Date(now + flushMillis); flushing = false }
Finally(m, t) ==
    [m EXCEPT !.flushExpiry = t + flushMillis, !.flushing = FALSE,
              !.request = NoRequest, !.batches = 0, !.iterIdx = 0,
              !.iterDone = FALSE, !.flushEnded = TRUE, !.late = {}]

\* while (batches--) { build the batch; await the request }
FlushLoop(m, t) ==
    IF m.batches = 0
    THEN Finally(m, t)
    ELSE LET tk == TakeBatch(m.buffer, m.iterIdx, m.iterDone)
         IN  [m EXCEPT !.batches = @ - 1, !.iterIdx = tk.idx,
                       !.iterDone = tk.done, !.request = Request(tk.batch),
                       !.sent = @ + 1,
                       !.attempted = @ \cup UidsOf(tk.batch)]

\* flush(), up to its first await or to its end
flush(m, t) ==
    IF FlushGuard(m)
    THEN m
    ELSE FlushLoop([m EXCEPT !.flushing = TRUE,
                             !.batches = Batches(Len(m.buffer), t, m.flushExpiry),
                             !.iterIdx = 0, !.iterDone = FALSE,
                             !.sent = 0, !.startN = Len(m.buffer),
                             !.startPartial = (t > m.flushExpiry),
                             !.disturbed = FALSE, !.allOk = TRUE,
                             !.late = {}], t)

\* if (result.status >= 200 && result.status < 300)
StatusOk(o) == ~o.thrown /\ o.status >= StatusOkLow /\ o.status < StatusOkHigh

\* a success that deletes only the first point of the batch
OnSuccess_firstOnly(m, t) ==
    LET keys == IF m.request.body = <<>> THEN {} ELSE {m.request.body[1].uid}
    IN  FlushLoop([m EXCEPT !.buffer = BufferDelete(m.buffer, keys),
                            !.iterIdx = IF m.iterDone THEN 0
                                        ELSE IterAfterDelete(m.buffer, m.iterIdx, keys),
                            !.request = NoRequest], t)

\* a success whose delete of a key that is gone throws into the catch block
OnSuccess_throwsOnAbsent(m, t) ==
    IF UidsOf(m.request.body) \subseteq UidsOf(m.buffer)
    THEN LET keys == UidsOf(m.request.body)
         IN  FlushLoop([m EXCEPT !.buffer = BufferDelete(m.buffer, keys),
                                 !.iterIdx = IF m.iterDone THEN 0
                                             ELSE IterAfterDelete(m.buffer, m.iterIdx, keys),
                                 !.request = NoRequest], t)
    ELSE Finally([m EXCEPT !.allOk = FALSE, !.raced = TRUE], t)

\* batch.forEach(point => this.buffer.delete(point.uid)), then the next round
OnSuccess(m, t) ==
    LET keys == UidsOf(m.request.body)
    IN  FlushLoop([m EXCEPT !.buffer = BufferDelete(m.buffer, keys),
                            !.raced = ~(keys \subseteq UidsOf(m.buffer)),
                            !.iterIdx = IF m.iterDone THEN 0
                                        ELSE IterAfterDelete(m.buffer, m.iterIdx, keys),
                            !.request = NoRequest], t)

\* a failure that clears the batch from the buffer all the same
OnFailure_deletes(m, t) ==
    Finally([m EXCEPT !.allOk = FALSE,
                      !.buffer = BufferDelete(m.buffer, UidsOf(m.request.body))], t)

\* a failure that goes on with the next batch
OnFailure_continues(m, t) ==
    FlushLoop([m EXCEPT !.allOk = FALSE, !.request = NoRequest], t)

\* a failure that skips the finally block
OnFailure_noFinally(m, t) == [m EXCEPT !.allOk = FALSE, !.request = NoRequest]

\* a rejected request, or the else branch (its `error` is not defined, so it
\* throws a ReferenceError): catch (err) { ... } finally { ... }
OnFailure(m, t) == Finally([m EXCEPT !.allOk = FALSE], t)

\* ----------------------------------------------------------------- actions
Init ==
    /\ now = 0
    /\ options = NoOptions
    /\ timer = FALSE
    /\ ttlMillis = DefaultTtlMillis
    /\ flushMillis = 0
    /\ buffer = <<>>
    /\ flushExpiry = 0
    /\ flushing = FALSE
    /\ batches = 0
    /\ iterIdx = 0
    /\ iterDone = FALSE
    /\ request = NoRequest
    /\ lastOp = "new"
    /\ sent = 0
    /\ startN = 0
    /\ startPartial = FALSE
    /\ disturbed = FALSE
    /\ allOk = TRUE
    /\ flushEnded = FALSE
    /\ attempted = {}
    /\ evicted = {}
    /\ replaced = FALSE
    /\ late = {}
    /\ raced = FALSE
    /\ stopFlushTimer = {}

\* start(options), called once by plugin.start right after construction
Start(opts) ==
    /\ options = NoOptions
    /\ options' = opts
    /\ ttlMillis' = opts.ttlSecs * MillisPerSec
    /\ IF opts.flushSecs > 0
       THEN /\ flushMillis' = opts.flushSecs * MillisPerSec
            /\ flushExpiry' = now + opts.flushSecs * MillisPerSec
       ELSE UNCHANGED <<flushMillis, flushExpiry>>
    /\ timer' = TRUE
    /\ lastOp' = "start"
    /\ flushEnded' = FALSE
    /\ evicted' = {}
    /\ replaced' = FALSE
    /\ late' = {}
    /\ raced' = FALSE
    /\ UNCHANGED <<now, buffer, flushing, batches, iterIdx, iterDone, request,
                   sent, startN, startPartial, disturbed, allOk, attempted,
                   stopFlushTimer>>

\* the capacity check off by one
CapacityExceeded_offByOne(buf) == Len(buf) > options.maxBuffer

\* if (this.buffer.size >= this.options.maxBuffer) throw
CapacityExceeded(buf) == Len(buf) >= options.maxBuffer

\* if (size >= batchSize || timeNow > this.flushExpiry) this.flush()
SendTrigger(m, t) == Len(m.buffer) >= options.batchSize \/ t > m.flushExpiry

\* a catch block that empties the buffer
Caught_clears(m) == [m EXCEPT !.buffer = <<>>]

\* catch (err) { this.app.error(`send: ${err}`) }: logs, returns normally
Caught(m) == m

\* send(point), called by handleUpdates while the subscriptions exist
Send(raw) ==
    /\ options # NoOptions
    /\ timer
    /\ LET got == getPoint(raw, now, ttlMillis)
       IN  IF CapacityExceeded(buffer)
           THEN /\ Becomes(Caught(Cur))
                /\ lastOp' = "reject"
           ELSE IF got = {}
           THEN /\ Becomes(Caught(Cur))
                /\ lastOp' = "builderror"
           ELSE LET pt == CHOOSE x \in got : TRUE
                    m1 == [Cur EXCEPT !.buffer = BufferSet(buffer, pt),
                                      !.disturbed = flushing,
                                      !.replaced = pt.uid \in UidsOf(buffer),
                                      !.late = IF flushing /\ pt.uid \notin UidsOf(buffer)
                                               THEN late \cup {pt.uid} ELSE late]
                IN  /\ Becomes(IF SendTrigger(m1, now) THEN flush(m1, now) ELSE m1)
                    /\ lastOp' = "send"
    /\ evicted' = {}
    /\ UNCHANGED <<now, options, timer, ttlMillis, flushMillis, stopFlushTimer>>

\* an expiry test with the comparison reversed
Expired_reversed(pt, t) == t < pt.expiry

\* an expiry test that lets a point stay a second too long
Expired_late(pt, t) == t > pt.expiry + MillisPerSec

\* if (timeNow > point.expiry) this.buffer.delete(key)
Expired(pt, t) == t > pt.expiry

\* housekeeping(), the interval callback
Housekeeping ==
    /\ timer
    /\ \E stale \in {{buffer[i].uid : i \in {j \in 1 .. Len(buffer) : Expired(buffer[j], now)}}} :
       \E m1 \in {[Cur EXCEPT !.buffer = BufferDelete(buffer, stale),
                              !.iterIdx = IF iterDone THEN 0
                                          ELSE IterAfterDelete(buffer, iterIdx, stale),
                              !.disturbed = flushing /\ (disturbed \/ stale # {})]} :
           /\ Becomes(IF now > flushExpiry THEN flush(m1, now) ELSE m1)
           /\ evicted' = {[uid |-> u, attempted |-> u \in attempted] : u \in stale}
    /\ lastOp' = "housekeeping"
    /\ UNCHANGED <<now, options, timer, ttlMillis, flushMillis, stopFlushTimer>>

\* a stop() that leaves the interval running
ClearInterval_forgets(tm) == tm

\* if (this.timer) { clearInterval(this.timer); this.timer = null }
ClearInterval(tm) == FALSE

\* stop(), called once by plugin.stop after the subscriptions were removed:
\* this.flush() first, with the timer still set, then the timer is cleared
Stop ==
    /\ timer
    /\ stopFlushTimer' = {timer}
    /\ Becomes(flush(Cur, now))
    /\ timer' = ClearInterval(timer)
    /\ lastOp' = "stop"
    /\ evicted' = {}
    /\ UNCHANGED <<now, options, ttlMillis, flushMillis>>

\* the awaited request settles: it resolves with a status or it rejects
Response(o) ==
    /\ request # NoRequest
    /\ IF StatusOk(o)
       THEN /\ \E c \in {Cur} : Becomes(OnSuccess(c, now))
            /\ lastOp' = "respOk"
       ELSE /\ \E c \in {Cur} : Becomes(OnFailure(c, now))
            /\ lastOp' = IF o.thrown THEN "respThrow" ELSE "respFail"
    /\ evicted' = {}
    /\ UNCHANGED <<now, options, timer, ttlMillis, flushMillis, stopFlushTimer>>

\* the clock advances (plugin.start constructs and starts the instance in
\* one synchronous block, so no time passes before start)
Tick ==
    /\ options # NoOptions
    /\ now < MaxTime * MillisPerSec
    /\ now' = now + MillisPerSec
    /\ Becomes(Cur)
    /\ lastOp' = "tick"
    /\ evicted' = {}
    /\ UNCHANGED <<options, timer, ttlMillis, flushMillis, stopFlushTimer>>

Next ==
    \/ \E opts \in OptionsSet : Start(opts)
    \/ \E raw \in RawPoints : Send(raw)
    \/ Housekeeping
    \/ Stop
    \/ \E o \in Outcomes : Response(o)
    \/ Tick

Spec == Init /\ [][Next]_vars

\* the same with the scheduling the runtime gives: the clock keeps advancing
\* and the interval timer keeps firing housekeeping() while it is set; the
\* Transport may answer late or never
LiveSpec == Spec /\ WF_vars(Tick) /\ WF_vars(Housekeeping)

\* the same with a Transport that always answers: superagent's response and
\* deadline timeouts make every awaited request resolve or reject
FlushLiveSpec == Spec /\ WF_vars(\E o \in Outcomes : Response(o))

\* ------------------------------------------------------------------ claims
Started == options # NoOptions
SendOps == {"send", "reject", "builderror"}
FailOps == {"respFail", "respThrow"}

\* C1: the buffer never holds more than maxBuffer points, and a send() issued
\* while it holds maxBuffer points or more is rejected without queueing
C1_BufferBounded ==
    /\ [](Started => Len(buffer) <= options.maxBuffer)
    /\ [][(lastOp' \in SendOps /\ Len(buffer) >= options.maxBuffer)
            => (lastOp' = "reject" /\ buffer' = buffer)]_vars

\* a send() was rejected at a full buffer
C1_Witness == lastOp = "reject" /\ Len(buffer) = options.maxBuffer

\* C2: a flush() invoked by send, housekeeping or stop while a flush awaits
\* its response issues no request, leaves flushExpiry, the running flush and
\* its flag alone, and itself changes nothing in the buffer
C2_FlushReentryNoop ==
    [][(flushing /\ lastOp' \in SendOps \cup {"housekeeping", "stop"})
        => /\ flushing'
           /\ request' = request
           /\ sent' = sent
           /\ batches' = batches
           /\ flushExpiry' = flushExpiry
           /\ lastOp' = "stop" => buffer' = buffer
           /\ lastOp' \in SendOps =>
                 /\ Range(buffer) \subseteq Range(buffer')
                 /\ Len(buffer') <= Len(buffer) + 1
           /\ lastOp' = "housekeeping" =>
                 buffer' = SelectSeq(buffer, LAMBDA e : ~(now > e.expiry))]_vars

\* a send() reached the batch size while a flush was in flight
C2_Witness ==
    /\ lastOp = "send" /\ flushing /\ disturbed
    /\ request # NoRequest
    /\ Len(buffer) >= options.batchSize

\* C3: a point leaves the buffer exactly when a housekeeping tick finds it
\* expired or a flush whose batch held it got a 2xx response
C3_RemovedExactlyWhen ==
    [][LET gone == {e \in Range(buffer) : e \notin Range(buffer')}
       IN  /\ gone # {} =>
                \/ lastOp' = "housekeeping" /\ \A e \in gone : now > e.expiry
                \/ lastOp' = "respOk" /\ gone \subseteq Range(request.body)
           /\ lastOp' = "housekeeping" =>
                \A e \in Range(buffer) : now > e.expiry => e \in gone
           /\ lastOp' = "respOk" =>
                Range(request.body) \cap Range(buffer) \subseteq gone]_vars

\* a successful batch of a flush that a send() or an eviction ran across
\* removed points and left others behind
C3_Witness ==
    /\ lastOp = "respOk" /\ flushEnded /\ disturbed
    /\ buffer # <<>>
    /\ Len(buffer) < startN

\* C4: after a 2xx response no point of the batch is in the buffer; after any
\* other response, or a thrown error, every point of the batch that was in
\* the buffer still is
C4_BatchAtomic ==
    [][/\ lastOp' = "respOk" =>
            UidsOf(request.body) \cap UidsOf(buffer') = {}
       /\ lastOp' \in FailOps =>
            Range(request.body) \cap Range(buffer) \subseteq Range(buffer')]_vars

\* a full batch of two points was acknowledged and is gone
C4_Witness ==
    /\ lastOp = "respOk" /\ flushEnded /\ ~disturbed
    /\ options.batchSize = 2
    /\ startN = 3 /\ Len(buffer) = 1

\* C5: a failed batch ends the flush: no further request is issued, the
\* buffer is left as the earlier batches left it, and if the first batch
\* failed with no insert or eviction meanwhile the size is what it was
C5_FailureStopsFlush ==
    [][lastOp' \in FailOps
        => /\ request' = NoRequest
           /\ ~flushing'
           /\ sent' = sent
           /\ buffer' = buffer
           /\ (sent = 1 /\ ~disturbed) => Len(buffer') = startN]_vars

\* the first of at least two planned batches failed and the flush stopped
C5_Witness ==
    /\ lastOp \in FailOps /\ flushEnded /\ ~disturbed
    /\ sent = 1
    /\ startN >= 2 * options.batchSize
    /\ Len(buffer) = startN

\* C6: every point evicted for expiry was part of at least one Transport
\* request before (at-least-once delivery attempt within the TTL window)
C6_AttemptedBeforeEviction == \A e \in evicted : e.attempted

\* C7: with flushSecs = 0 no flush starts because of the deadline: a
\* housekeeping tick starts no request, a send() that leaves fewer than
\* batchSize points starts none, and every request carries a full batch
C7_NoPeriodicFlush ==
    [][(Started /\ options.flushSecs = 0)
        => /\ lastOp' = "housekeeping" => (request' = request /\ sent' = sent)
           /\ (lastOp' = "send" /\ Len(buffer') < options.batchSize)
                 => (request' = request /\ sent' = sent)
           /\ request' # NoRequest => Len(request'.body) = options.batchSize]_vars

\* C8: a flush that passed the re-entry check ends, on every exit path, with
\* flushExpiry = completion time + flushMillis and flushing = false; it is
\* flushing only while it awaits a request
C8_FinallyOnEveryExit ==
    /\ flushEnded => (~flushing /\ request = NoRequest
                        /\ flushExpiry = now + flushMillis)
    /\ flushing <=> request # NoRequest
    /\ (lastOp \in FailOps \cup {"respOk"} /\ ~flushing) => flushEnded

\* a flush whose request threw ended some time after the instance started,
\* with a flush interval configured
C8_Witness ==
    /\ flushEnded /\ lastOp = "respThrow"
    /\ flushMillis > 0 /\ now > 0

\* C9 as stated: right after a housekeeping tick at time now no resident
\* point has expiry <= now
C9_NoneExpiredAfterTick ==
    lastOp = "housekeeping" => \A e \in Range(buffer) : e.expiry > now

\* C9 amended: right after a housekeeping tick at time now no resident point
\* has expiry < now (a point whose expiry equals now stays)
C9_NonePastExpiryAfterTick ==
    lastOp = "housekeeping" => \A e \in Range(buffer) : e.expiry >= now

\* a tick evicted a point and kept one whose expiry is this very instant
C9_Witness ==
    /\ lastOp = "housekeeping" /\ evicted # {}
    /\ \E e \in Range(buffer) : e.expiry = now

\* C10: a flush started with now <= flushExpiry on n points, every response
\* 2xx and no insert or eviction meanwhile, sends floor(n / batchSize)
\* requests of exactly batchSize points and leaves n mod batchSize points
C10_FullBatchesOnly ==
    (~startPartial /\ allOk /\ ~disturbed)
        => /\ request # NoRequest => Len(request.body) = options.batchSize
           /\ flushEnded =>
                 /\ sent = startN \div options.batchSize
                 /\ Len(buffer) = startN % options.batchSize

\* three points, batches of two: one request, one point left
C10_Witness ==
    /\ flushEnded /\ ~startPartial /\ allOk /\ ~disturbed
    /\ options.batchSize = 2 /\ startN = 3
    /\ sent = 1 /\ Len(buffer) = 1

\* C11: a flush started with now > flushExpiry on n points, every response
\* 2xx and no insert or eviction meanwhile, issues floor(n / batchSize) + 1
\* requests, the last one with the n mod batchSize trailing points, and
\* leaves the buffer empty
C11_PartialBatchDrains ==
    (startPartial /\ allOk /\ ~disturbed)
        => /\ request # NoRequest =>
                 Len(request.body) = IF batches > 0 THEN options.batchSize
                                     ELSE startN % options.batchSize
           /\ flushEnded =>
                 /\ sent = (startN \div options.batchSize) + 1
                 /\ buffer = <<>>

\* three points, batches of two, past the deadline: two requests, none left
C11_Witness ==
    /\ flushEnded /\ startPartial /\ allOk /\ ~disturbed
    /\ options.batchSize = 2 /\ startN = 3
    /\ sent = 2 /\ buffer = <<>>

\* C12: once the flush invoked by stop() has completed with every request
\* answered 2xx, the buffer is empty
C12_StopDrains ==
    (Started /\ ~timer /\ ~flushing /\ allOk /\ lastOp \in {"stop", "respOk"})
        => buffer = <<>>

\* the last clock value of the model
Horizon == MaxTime * MillisPerSec

\* C13: while the housekeeping timer runs, every point in the buffer whose
\* expiry the clock passes is eventually removed, whatever the Transport does
C13_ExpiredEventuallyRemoved ==
    (timer /\ \E e \in Range(buffer) : e.expiry < Horizon)
        ~> (~timer \/ \A e \in Range(buffer) : e.expiry >= Horizon)

\* a tick evicted a point while a request was still unanswered
C13_Witness ==
    /\ lastOp = "housekeeping" /\ evicted # {}
    /\ timer /\ request # NoRequest

\* what JSON.stringify serialises of a buffered point before its uid is set
Content(e) == <<e.id, e.time, e.expiry>>

\* C14: points of equal serialised content have equal fingerprints; a send()
\* of content that is resident replaces the entry and leaves the buffer as
\* it was, a send() that grows the buffer brought content that was not
\* resident, and no two entries ever share a fingerprint
C14_InsertIdempotent ==
    /\ [](/\ Cardinality(UidsOf(buffer)) = Len(buffer)
          /\ \A e, f \in Range(buffer) : Content(e) = Content(f) => e.uid = f.uid)
    /\ [][lastOp' = "send"
            => /\ replaced' =>
                    /\ buffer' = buffer
                    /\ Len(buffer) < options.maxBuffer
               /\ ~replaced' =>
                    /\ Len(buffer') = Len(buffer) + 1
                    /\ SubSeq(buffer', 1, Len(buffer)) = buffer
                    /\ \A e \in Range(buffer) :
                          Content(e) # Content(buffer'[Len(buffer')])]_vars

\* the same content was sent again during the same millisecond and the
\* buffer still holds it once, next to an older point
C14_Witness ==
    /\ lastOp = "send" /\ replaced
    /\ Len(buffer) = 2
    /\ Cardinality(UidsOf(buffer)) = 2

\* C15: a send() rejected for capacity or for a build failure returns
\* normally and leaves the buffer, and the flush in progress if there is
\* one, exactly as they were
C15_RejectedSendNoEffect ==
    [][lastOp' \in {"reject", "builderror"}
        => /\ buffer' = buffer
           /\ flushing' = flushing
           /\ request' = request
           /\ batches' = batches
           /\ flushExpiry' = flushExpiry
           /\ timer' = timer]_vars

\* a payload that cannot be serialised was dropped while the buffer held
\* points and a request was in flight
C15_Witness ==
    /\ lastOp = "builderror"
    /\ buffer # <<>>
    /\ request # NoRequest

\* C16: every request a flush issues uses the method configured in
\* apiMethod and the url configured in apiUrl
C16_RequestUsesConfiguredMethod ==
    request # NoRequest
        => /\ request.method = options.apiMethod
           /\ request.url = options.apiUrl

\* C17: every point a flush invocation transmits was in the buffer when the
\* invocation began: no request carries a point that send() inserted while
\* an earlier request of the same invocation was in flight
C17_FlushSendsSnapshotOnly ==
    request # NoRequest => UidsOf(request.body) \cap late = {}

\* C18: when a 2xx response arrives for a batch of which housekeeping has
\* evicted a point meanwhile, the removal takes out the batch's points that
\* are still resident and nothing else, no error is raised, and the flush
\* goes on to its next request or ends with flushing = false
C18_EvictionRaceHarmless ==
    [][(lastOp' = "respOk" /\ ~(UidsOf(request.body) \subseteq UidsOf(buffer)))
        => /\ raced'
           /\ buffer' = SelectSeq(buffer, LAMBDA e : e.uid \notin UidsOf(request.body))
           /\ allOk' = allOk
           /\ \/ request' # NoRequest /\ flushing' /\ sent' = sent + 1
              \/ request' = NoRequest /\ ~flushing' /\ flushEnded']_vars

\* a batch of two was acknowledged after housekeeping had evicted one of its
\* points, and the flush ended
C18_Witness ==
    /\ lastOp = "respOk" /\ raced
    /\ flushEnded /\ ~flushing /\ allOk
    /\ options.batchSize = 2

\* C19 as stated: stop() cancels the housekeeping timer before it invokes
\* the final flush, and no housekeeping tick runs after stop() was called
C19_TimerCancelledThenFlush ==
    /\ \A set \in stopFlushTimer : ~set
    /\ stopFlushTimer # {} => (~timer /\ lastOp # "housekeeping")

\* C19 amended: stop() invokes the final flush while the timer is still set
\* and cancels the timer right after, before anything else can run; once
\* stop() was called the timer is off and no housekeeping tick runs, also
\* not while the final flush awaits the Transport
C19_FlushThenTimerCancelled ==
    /\ [](stopFlushTimer # {}
            => (stopFlushTimer = {TRUE} /\ ~timer /\ lastOp # "housekeeping"))
    /\ [][stopFlushTimer # {}
            => (lastOp' # "housekeeping" /\ ~timer'
                  /\ stopFlushTimer' = stopFlushTimer)]_vars

\* the final flush still awaits the Transport a second after stop()
C19_Witness ==
    /\ stopFlushTimer # {} /\ ~timer
    /\ request # NoRequest /\ flushing
    /\ lastOp = "tick"

\* C20: the buffer keeps its points in insertion order, one position per
\* fingerprint; every batch a flush draws is the oldest resident points in
\* that order, and every point of a batch was inserted before every point
\* of the next batch of the same flush
C20_BatchesInInsertionOrder ==
    /\ [](\A i, j \in 1 .. Len(buffer) :
            i < j => /\ buffer[i].expiry <= buffer[j].expiry
                     /\ buffer[i].uid # buffer[j].uid)
    /\ [][(request' # NoRequest /\ (~flushing \/ lastOp' = "respOk"))
            => /\ request'.body = SubSeq(buffer', 1, Len(request'.body))
               /\ flushing =>
                    /\ \A e \in Range(request.body), f \in Range(request'.body) :
                          e.expiry <= f.expiry /\ e.uid # f.uid
                    /\ \A i, j \in 1 .. Len(buffer) :
                          (buffer[i] \in Range(request.body)
                             /\ buffer[j] \in Range(request'.body)) => i < j]_vars

\* the second batch of a flush was drawn while the buffer held a newer
\* point behind it
C20_Witness ==
    /\ lastOp = "respOk" /\ sent = 2
    /\ request.body # <<>>
    /\ Len(buffer) > Len(request.body)

\* C21: every request a flush issues carries between 1 and batchSize points
C21_BatchNeverEmpty ==
    request # NoRequest
        => /\ Len(request.body) >= 1
           /\ Len(request.body) <= options.batchSize

\* C22: when every request is answered, every flush that starts ends: the
\* requests it has issued and those it still plans never exceed
\* floor(n / batchSize) + 1, n being the buffer size when it started,
\* whatever is inserted meanwhile, and flushing becomes false again
C22_FlushTerminates ==
    /\ [](flushing => /\ options.batchSize >= 1
                      /\ sent + batches <= (startN \div options.batchSize) + 1)
    /\ flushing ~> ~flushing

\* a flush past the deadline issued all its floor(n / batchSize) + 1 requests
\* and ended, leaving behind a point that was inserted while it ran
C22_Witness ==
    /\ flushEnded /\ ~flushing /\ allOk
    /\ startPartial /\ disturbed
    /\ sent = (startN \div options.batchSize) + 1
    /\ buffer # <<>>

====
